---- MODULE Spec2Model ----
(***************************************************************************)
(* Reasoning chain generation and analysis engine                          *)
(* (backend/ml/services/reasoning_engine.py, with the API handlers of      *)
(* backend/ml/main.py that call it).                                       *)
(*                                                                         *)
(* Numbers: confidences are in hundredths (0.8 is 80); scores that are     *)
(* means of confidences (overall_confidence, logical_validity) are in      *)
(* units of 1/Unit, so that sum/len is exact for up to six steps.          *)
(* Texts: a text is a sequence of lines, a line is a record that carries   *)
(* what the regular expressions and string tests of the code look at.      *)
(***************************************************************************)
EXTENDS Integers, Sequences, FiniteSets, TLC

\* ---------------------------------------------------------------- bounds
MaxSteps == 2
MaxLines == 2

\* ------------------------------------------------------------- constants
DefaultConfidence == 80
Unit == 600 * 100
NoneType == "None"

ReasoningTypes == {"deductive", "inductive", "abductive"}

Min(a, b) == IF a < b THEN a ELSE b

RECURSIVE SumConfidence(_)
SumConfidence(steps) ==
    IF steps = <<>> THEN 0
    ELSE Head(steps).confidence + SumConfidence(Tail(steps))

RECURSIVE SelectSeqOf(_, _)
\* list comprehension [x for x in s if x.kind in kinds]
SelectSeqOf(s, kinds) ==
    IF s = <<>> THEN <<>>
    ELSE IF Head(s).kind \in kinds
         THEN <<Head(s)>> \o SelectSeqOf(Tail(s), kinds)
         ELSE SelectSeqOf(Tail(s), kinds)

\* ----------------------------------------------------------- step texts
\* _steps_logically_connected: any(word in step2.text.lower() ...)
ConnectingBodies == {"therefore Y"}

\* ------------------------------------------------------- data model
ReasoningStep(n, txt, conf, ty, ev) ==
    [step_number |-> n, text |-> txt, confidence |-> conf, type |-> ty,
     evidence_used |-> ev]

\* premise_strength is a dict; keys is the set of keys it holds
EmptyDict == [keys |-> {}, overall_strength |-> 0, premise_count |-> 0,
              individual_strengths |-> <<>>]

AnalysisFields == {"fallacies", "logical_gaps", "counterarguments",
                   "premise_strength", "evidence_requirements"}

\* ReasoningChain(steps=..., reasoning_type=..., overall_confidence=...,
\* logical_validity=...): the other fields take the schema's defaults.
\* writes records, per field, who assigned it after construction.
ReasoningChain(steps, rt, oc, lv) ==
    [steps |-> steps, reasoning_type |-> rt, overall_confidence |-> oc,
     logical_validity |-> lv,
     fallacies |-> <<>>, logical_gaps |-> <<>>, counterarguments |-> <<>>,
     premise_strength |-> EmptyDict, evidence_requirements |-> <<>>,
     assumptions |-> <<>>, weaknesses |-> <<>>,
     writes |-> [f \in AnalysisFields |-> <<>>]]

\* ----------------------------------------------------- validity assessor
HasType(steps, ty) == \E i \in 1..Len(steps) : steps[i].type = ty

\* an assessor that wants more than two steps for the progression credit
AssessLogicalValidityStrict(steps, rt) ==
    IF steps = <<>> THEN 0
    ELSE Min((IF HasType(steps, "premise") /\ HasType(steps, "conclusion")
                 THEN Unit \div 2 ELSE 0)
             + (IF Len(steps) > 2 THEN (3 * Unit) \div 10 ELSE 0)
             + (SumConfidence(steps) * (Unit \div 500)) \div Len(steps),
             Unit)

\* _assess_logical_validity
AssessLogicalValidity(steps, rt) ==
    IF steps = <<>> THEN 0
    ELSE Min((IF HasType(steps, "premise") /\ HasType(steps, "conclusion")
                 THEN Unit \div 2 ELSE 0)
             + (IF Len(steps) >= 2 THEN (3 * Unit) \div 10 ELSE 0)
             + (SumConfidence(steps) * (Unit \div 500)) \div Len(steps),
             Unit)

\* the sum of the confidences, not divided by the number of steps
OverallConfidenceNoDivide(steps) ==
    IF steps = <<>> THEN 0 ELSE SumConfidence(steps) * (Unit \div 100)

\* sum(step.confidence ...) / len(steps) if steps else 0.0
OverallConfidence(steps) ==
    IF steps = <<>> THEN 0
    ELSE (SumConfidence(steps) * (Unit \div 100)) \div Len(steps)

\* ------------------------------------------------- texts of the backends
\* A line of text. kind says what the line looks like:
\*   "step"    Step <num>: [<type>] - <text>
\*   "hdrA"    ASSUMPTIONS:              "hdrW"  POTENTIAL WEAKNESSES:
\*   "hdrE"    EVIDENCE REQUIREMENTS:    "hdrC"  COUNTERARGUMENTS:
\*   "note"    Note: <text>      (letters, then a colon, at the line start)
\*   "dash"    - <text>          "dot"   the bullet sign, then <text>
\*   "numbered" <num>. <text>    "prose" <text>       "blank"  empty line
Line(kind, num, type, text) ==
    [kind |-> kind, num |-> num, type |-> type, text |-> text]

\* the text of a line, as Python's str
LineText(l) ==
    CASE l.kind = "step" ->
           "Step " \o ToString(l.num) \o ": [" \o l.type \o "] - " \o l.text
      [] l.kind = "hdrA" -> "ASSUMPTIONS:"
      [] l.kind = "hdrW" -> "POTENTIAL WEAKNESSES:"
      [] l.kind = "hdrE" -> "EVIDENCE REQUIREMENTS:"
      [] l.kind = "hdrC" -> "COUNTERARGUMENTS:"
      [] l.kind = "note" -> "Note: " \o l.text
      [] l.kind = "dash" -> "- " \o l.text
      [] l.kind = "dot" -> "* " \o l.text
      [] l.kind = "numbered" -> ToString(l.num) \o ". " \o l.text
      [] l.kind = "prose" -> l.text
      [] OTHER -> ""

\* line.strip('- ').strip(): dashes and blanks leave both ends
StripDash(l) ==
    IF l.kind = "dash" THEN l.text ELSE LineText(l)

\* the type taken as the response spells it
LowerUnderscoreKeepCase(t) == t

\* step_type.lower().replace(" ", "_")
LowerUnderscore(t) ==
    CASE t = "PREMISE" -> "premise"
      [] t = "Premise" -> "premise"
      [] t = "CONCLUSION" -> "conclusion"
      [] t = "INFERENCE" -> "inference"
      [] t = "SUB CLAIM" -> "sub_claim"
      [] OTHER -> t

RECURSIVE ParsedSteps(_)
\* re.findall(step_pattern, reasoning_text): one ReasoningStep per step line,
\* numbered by the number the line carries
ParsedSteps(resp) ==
    IF resp = <<>> THEN <<>>
    ELSE IF Head(resp).kind = "step"
         THEN <<ReasoningStep(Head(resp).num, Head(resp).text,
                              DefaultConfidence,
                              LowerUnderscore(Head(resp).type), <<>>)>>
              \o ParsedSteps(Tail(resp))
         ELSE ParsedSteps(Tail(resp))

\* The lines \n[A-Z]+: matches under re.IGNORECASE: letters and then a colon.
\* A header of two words has a space before its colon and does not match.
SectionEnders == {"hdrA", "hdrC", "note"}

\* first line of kind hdr, 0 when there is none (re.search finds the first)
HeaderIndex(resp, hdr) ==
    IF \E i \in 1..Len(resp) : resp[i].kind = hdr
    THEN CHOOSE i \in 1..Len(resp) :
           /\ resp[i].kind = hdr
           /\ \A j \in 1..(i - 1) : resp[j].kind # hdr
    ELSE 0

\* (.*?)(?=\n[A-Z]+:|$): the index after the last line of the section at i
SectionStop(resp, i) ==
    IF \E j \in (i + 1)..Len(resp) : resp[j].kind \in SectionEnders
    THEN CHOOSE j \in (i + 1)..Len(resp) :
           /\ resp[j].kind \in SectionEnders
           /\ \A k \in (i + 1)..(j - 1) : resp[k].kind \notin SectionEnders
    ELSE Len(resp) + 1

RECURSIVE SectionLines(_, _)
\* [line.strip('- ').strip() for line in ... if line.strip()], then those
\* that are not empty and do not start with the header's first word (own)
SectionLines(ls, own) ==
    IF ls = <<>> THEN <<>>
    ELSE IF \/ Head(ls).kind = "blank" \/ Head(ls).kind = own
            \/ StripDash(Head(ls)) = ""
         THEN SectionLines(Tail(ls), own)
         ELSE <<StripDash(Head(ls))>> \o SectionLines(Tail(ls), own)

\* one of the four named sections of _parse_structured_reasoning
Section(resp, hdr) ==
    LET i == HeaderIndex(resp, hdr) IN
    IF i = 0 THEN <<>>
    ELSE SectionLines(SubSeq(resp, i + 1, SectionStop(resp, i) - 1), hdr)

\* a parser that fills an analysis field itself
ParseStructuredReasoningEager(resp, rt) ==
    LET steps == ParsedSteps(resp)
        chain == ReasoningChain(steps, rt, OverallConfidence(steps),
                                AssessLogicalValidity(steps, rt))
    IN <<[chain EXCEPT
            !.logical_gaps = <<[type |-> "missing_premise", severity |-> 80,
                                ref |-> <<>>]>>,
            !.writes = [@ EXCEPT !["logical_gaps"] = <<"parser">>]]>>

\* _parse_structured_reasoning: the chain is built and returned whether or
\* not a step line was found
ParseStructuredReasoning(resp, rt) ==
    LET steps == ParsedSteps(resp)
        chain == ReasoningChain(steps, rt, OverallConfidence(steps),
                                AssessLogicalValidity(steps, rt))
    IN <<[chain EXCEPT
            !.assumptions = Section(resp, "hdrA"),
            !.weaknesses = Section(resp, "hdrW"),
            !.evidence_requirements = Section(resp, "hdrE"),
            !.counterarguments = Section(resp, "hdrC"),
            !.writes = [@ EXCEPT !["evidence_requirements"] = <<"parser">>,
                                 !["counterarguments"] = <<"parser">>]]>>

\* ------------------------------------------------ fallback chain builder
\* Lines of the local model's output carry two more kinds:
\*   "typed"    <num>. <type>: <text>      (a digit first, and a colon)
\*   "numbered" <num>. <text>              (a digit first, no colon)
PremiseWords == {"premise", "Premise", "first premise"}
ConclusionWords == {"conclusion", "Conclusion"}

\* _extract_step_type
ExtractStepType(type_part) ==
    IF type_part \in PremiseWords THEN "premise"
    ELSE IF type_part \in ConclusionWords THEN "conclusion"
    ELSE "inference"

\* line[0].isdigit() or line.startswith('- ')
IsStepLine(l) == l.kind \in {"typed", "numbered", "dash"}

\* the text after the first colon, stripped; the whole line without a colon
StepContent(l) ==
    IF l.kind = "typed" THEN l.text
    ELSE IF l.kind = "numbered" THEN ToString(l.num) \o ". " \o l.text
    ELSE "- " \o l.text

RECURSIVE ParseFrom(_, _)
ParseFrom(lines, step_number) ==
    IF lines = <<>> THEN <<>>
    ELSE IF IsStepLine(Head(lines)) /\ StepContent(Head(lines)) # ""
         THEN <<ReasoningStep(step_number, StepContent(Head(lines)),
                              DefaultConfidence,
                              IF Head(lines).kind = "typed"
                                 THEN ExtractStepType(Head(lines).type)
                                 ELSE "inference",
                              <<>>)>>
              \o ParseFrom(Tail(lines), step_number + 1)
         ELSE ParseFrom(Tail(lines), step_number)

\* _parse_reasoning_steps
ParseReasoningSteps(generated_text) == ParseFrom(generated_text, 1)

\* _generate_reasoning_steps: have is whether self.generator is set; out is
\* what the call of the local model does (raises, or returns text)
GenerateReasoningSteps(have, out, max_steps) ==
    IF ~have THEN <<>>
    ELSE IF out.raises THEN <<>>
    ELSE LET steps == ParseReasoningSteps(out.text)
         IN SubSeq(steps, 1, Min(max_steps, Len(steps)))

\* a builder that returns no chain when it has no step
BuildChainOrNone(rt, steps) ==
    IF steps = <<>> THEN <<>>
    ELSE <<ReasoningChain(steps, rt, OverallConfidence(steps),
                          AssessLogicalValidity(steps, rt))>>

\* _generate_deductive_reasoning, _generate_inductive_reasoning,
\* _generate_abductive_reasoning: the same body, each with its own type
BuildChain(rt, steps) ==
    <<ReasoningChain(steps, rt, OverallConfidence(steps),
                     AssessLogicalValidity(steps, rt))>>

\* a builder that was copied without changing its type
FallbackReasoningOneType(rt, have, out, max_steps) ==
    BuildChain("deductive", GenerateReasoningSteps(have, out, max_steps))

\* _generate_fallback_reasoning
FallbackReasoning(rt, have, out, max_steps) ==
    LET steps == GenerateReasoningSteps(have, out, max_steps) IN
    IF rt = "deductive" THEN BuildChain("deductive", steps)
    ELSE IF rt = "inductive" THEN BuildChain("inductive", steps)
    ELSE BuildChain("abductive", steps)

\* -------------------------------------------------- logical analysis suite
\* What a step text can be: a body, or a body behind the lead of the line it
\* was read from. Embeds(text, body) is Python's `body in text` for them.
Leads == {"", "- "} \cup {ToString(n) \o ". " : n \in 1..(MaxSteps + 1)}
Embeds(text, body) == \E p \in Leads : text = p \o body

\* a test that looks for the connective in the earlier step
StepsLogicallyConnectedEarlier(step1, step2) ==
    \E b \in ConnectingBodies : Embeds(step1.text, b)

\* _steps_logically_connected, which reads the later step only
StepsLogicallyConnected(step1, step2) ==
    \E b \in ConnectingBodies : Embeds(step2.text, b)

\* class LogicalFallacy
LogicalFallacy ==
    {"ad_hominem", "straw_man", "false_dichotomy", "slippery_slope",
     "appeal_to_authority", "circular_reasoning", "hasty_generalization",
     "false_cause", "appeal_to_emotion", "bandwagon"}

\* the keys of the table _load_fallacy_patterns returns, in its order
FallacyOrder ==
    <<"ad_hominem", "straw_man", "false_dichotomy", "circular_reasoning",
      "hasty_generalization">>

\* bodies that a pattern of the table matches, with the key of the pattern:
\*   (you|they) (are|is) (stupid|wrong|...)
\*   (distort|misrepresent|exaggerate) .{10,} (position|argument)
\*   (no other|only two) (option|choice|way)
\*   (prove|show|demonstrate) .{10,} by assuming
\*   (all|every|always|never) .{10,} (are|is|do|does)
FallacyBodies ==
    {<<"you are wrong", "ad_hominem">>,
     <<"misrepresent the opposing position", "straw_man">>,
     <<"only two option", "false_dichotomy">>,
     <<"prove the conclusion by assuming", "circular_reasoning">>,
     <<"all swans in the park are", "hasty_generalization">>}

\* _get_fallacy_description
FallacyDescription(fallacy) ==
    CASE fallacy = "ad_hominem" ->
           "Attacking the person making the argument rather than the argument itself"
      [] fallacy = "straw_man" ->
           "Misrepresenting someone's argument to make it easier to attack"
      [] fallacy = "false_dichotomy" ->
           "Presenting only two options when more exist"
      [] fallacy = "circular_reasoning" ->
           "Using the conclusion as part of the premise"
      [] fallacy = "hasty_generalization" ->
           "Making broad generalizations from limited examples"
      [] OTHER -> "Unknown fallacy"

FallacyConfidence == 70

RECURSIVE MatchesOfType(_, _)
\* the records of the matches of the patterns of one key, in text order
MatchesOfType(steps, fallacy) ==
    IF steps = <<>> THEN <<>>
    ELSE (IF \E fb \in FallacyBodies :
                fb[2] = fallacy /\ Embeds(Head(steps).text, fb[1])
          THEN LET fb == CHOOSE f \in FallacyBodies :
                            f[2] = fallacy /\ Embeds(Head(steps).text, f[1])
               IN <<[type |-> fallacy,
                     description |-> FallacyDescription(fallacy),
                     confidence |-> FallacyConfidence,
                     text_excerpt |-> fb[1]]>>
          ELSE <<>>)
         \o MatchesOfType(Tail(steps), fallacy)

RECURSIVE FallaciesFrom(_, _)
\* for fallacy, patterns in self.fallacy_patterns.items(), from the k-th key
FallaciesFrom(steps, k) ==
    IF k > Len(FallacyOrder) THEN <<>>
    ELSE MatchesOfType(steps, FallacyOrder[k]) \o FallaciesFrom(steps, k + 1)

FallaciesIn(steps) == FallaciesFrom(steps, 1)

\* _detect_fallacies
DetectFallacies(chain) == FallaciesIn(chain.steps)

MissingPremiseSeverity == 80
WeakConnectionSeverity == 60
UnsupportedSeverity == 70

RECURSIVE WeakConnections(_, _)
WeakConnections(steps, i) ==
    IF i >= Len(steps) THEN <<>>
    ELSE (IF ~StepsLogicallyConnected(steps[i], steps[i + 1])
          THEN <<[type |-> "weak_connection",
                  severity |-> WeakConnectionSeverity,
                  ref |-> <<i, i + 1>>]>>
          ELSE <<>>)
         \o WeakConnections(steps, i + 1)

RECURSIVE UnsupportedAssumptionsAnyPremise(_)
\* a check that does not look at evidence_used
UnsupportedAssumptionsAnyPremise(steps) ==
    IF steps = <<>> THEN <<>>
    ELSE (IF Head(steps).type = "premise"
          THEN <<[type |-> "unsupported_assumption",
                  severity |-> UnsupportedSeverity,
                  ref |-> <<Head(steps).step_number>>]>>
          ELSE <<>>)
         \o UnsupportedAssumptionsAnyPremise(Tail(steps))

RECURSIVE UnsupportedAssumptions(_)
UnsupportedAssumptions(steps) ==
    IF steps = <<>> THEN <<>>
    ELSE (IF Head(steps).type = "premise" /\ Head(steps).evidence_used = <<>>
          THEN <<[type |-> "unsupported_assumption",
                  severity |-> UnsupportedSeverity,
                  ref |-> <<Head(steps).step_number>>]>>
          ELSE <<>>)
         \o UnsupportedAssumptions(Tail(steps))

\* _identify_logical_gaps; ref holds the step numbers the description names
IdentifyLogicalGaps(chain, evidence) ==
    (IF ~HasType(chain.steps, "premise")
     THEN <<[type |-> "missing_premise",
             severity |-> MissingPremiseSeverity, ref |-> <<>>]>>
     ELSE <<>>)
    \o WeakConnections(chain.steps, 1)
    \o UnsupportedAssumptions(chain.steps)

RECURSIVE PremiseSteps(_)
PremiseSteps(steps) ==
    IF steps = <<>> THEN <<>>
    ELSE (IF Head(steps).type = "premise" THEN <<Head(steps)>> ELSE <<>>)
         \o PremiseSteps(Tail(steps))

EvidenceBonus == 20

RECURSIVE TotalStrengthNoClamp(_)
\* the strengths summed without min(strength, 1.0)
TotalStrengthNoClamp(premises) ==
    IF premises = <<>> THEN 0
    ELSE Head(premises).confidence
         + (IF Head(premises).evidence_used # <<>> THEN EvidenceBonus ELSE 0)
         + TotalStrengthNoClamp(Tail(premises))

RECURSIVE TotalStrength(_)
TotalStrength(premises) ==
    IF premises = <<>> THEN 0
    ELSE Min(Head(premises).confidence
             + (IF Head(premises).evidence_used # <<>> THEN EvidenceBonus
                ELSE 0), 100)
         + TotalStrength(Tail(premises))

\* _assess_premise_strength; overall_strength is in units of 1/Unit
AssessPremiseStrength(chain) ==
    LET premise_steps == PremiseSteps(chain.steps) IN
    IF premise_steps = <<>>
    THEN [keys |-> {"overall_strength", "premise_count"},
          overall_strength |-> 0, premise_count |-> 0,
          individual_strengths |-> <<>>]
    ELSE [keys |-> {"overall_strength", "premise_count",
                    "individual_strengths"},
          overall_strength |->
              (TotalStrength(premise_steps) * (Unit \div 100))
                  \div Len(premise_steps),
          premise_count |-> Len(premise_steps),
          individual_strengths |->
              [i \in 1..Len(premise_steps) |->
                  [step |-> premise_steps[i].step_number,
                   strength |-> premise_steps[i].confidence]]]

WeakConfidence == 60
MaxRequirements == 5
MaxCounterarguments == 3

RECURSIVE SupportRequests(_)
SupportRequests(steps) ==
    IF steps = <<>> THEN <<>>
    ELSE (IF Head(steps).type = "premise" /\ Head(steps).evidence_used = <<>>
          THEN <<"Evidence to support: " \o Head(steps).text \o "...">>
          ELSE <<>>)
         \o SupportRequests(Tail(steps))

RECURSIVE WeakRequests(_)
WeakRequests(steps) ==
    IF steps = <<>> THEN <<>>
    ELSE (IF Head(steps).confidence < WeakConfidence
          THEN <<"Additional support needed for: " \o Head(steps).text
                 \o "...">>
          ELSE <<>>)
         \o WeakRequests(Tail(steps))

\* the list of requirements returned whole
IdentifyEvidenceRequirementsNoLimit(chain) ==
    SupportRequests(chain.steps) \o WeakRequests(chain.steps)
    \o (IF chain.reasoning_type = "inductive"
        THEN <<"More examples or cases to strengthen generalization">>
        ELSE IF chain.reasoning_type = "abductive"
        THEN <<"Evidence ruling out alternative explanations">>
        ELSE <<>>)

\* _identify_evidence_requirements (the texts of the model are shorter than
\* the 50 characters text[:50] keeps)
IdentifyEvidenceRequirements(chain) ==
    LET requirements ==
          SupportRequests(chain.steps) \o WeakRequests(chain.steps)
          \o (IF chain.reasoning_type = "inductive"
              THEN <<"More examples or cases to strengthen generalization">>
              ELSE IF chain.reasoning_type = "abductive"
              THEN <<"Evidence ruling out alternative explanations">>
              ELSE <<>>)
    IN SubSeq(requirements, 1, Min(MaxRequirements, Len(requirements)))

RECURSIVE CounterLines(_)
CounterLines(ls) ==
    IF ls = <<>> THEN <<>>
    ELSE (IF Head(ls).kind = "blank" THEN <<>> ELSE <<StripDash(Head(ls))>>)
         \o CounterLines(Tail(ls))

\* a generator that answers the missing backend with the empty list
GenerateCounterargumentsEmpty(clients, out) ==
    IF ~clients \/ out.raises THEN <<>>
    ELSE IF \E i \in 1..Len(out.text) :
                 out.text[i].kind \notin {"blank", "dash", "dot"}
    THEN <<>>
    ELSE LET counterarguments == CounterLines(out.text)
         IN SubSeq(counterarguments, 1,
                   Min(MaxCounterarguments, Len(counterarguments)))

\* _generate_counterarguments: clients is whether a client handle is set;
\* out is what the backend call does. startswith(('-', <bullet>, str)) raises
\* TypeError on a non-empty line that starts with neither sign, and the
\* handler of the method turns every exception into the empty list.
GenerateCounterarguments(clients, out) ==
    IF ~clients THEN <<"Counterargument generation requires LLM access">>
    ELSE IF out.raises THEN <<>>
    ELSE IF \E i \in 1..Len(out.text) :
                 out.text[i].kind \notin {"blank", "dash", "dot"}
    THEN <<>>
    ELSE LET counterarguments == CounterLines(out.text)
         IN SubSeq(counterarguments, 1,
                   Min(MaxCounterarguments, Len(counterarguments)))

\* ------------------------------------------------------- inputs (bounded)
RECURSIVE SeqsUpTo(_, _)
\* the sequences over S of length at most n
SeqsUpTo(S, n) ==
    IF n = 0 THEN {<<>>}
    ELSE LET shorter == SeqsUpTo(S, n - 1)
         IN shorter \cup {Append(t, x) : t \in shorter, x \in S}

\* the claim and the evidence list of a request: the empty claim, and the
\* claim of the test scenario with its two items of evidence
Claims == {"", "Exercise improves mental health"}
EvidenceOf(claim) == IF claim = "" THEN <<>> ELSE <<"e1", "e2">>

\* lines an external backend may answer a generation prompt with
ResponseLines ==
    {Line("step", 1, "PREMISE", "X"),
     Line("step", 2, "CONCLUSION", "therefore Y"),
     Line("hdrC", 0, "", ""),
     Line("dash", 0, "", "X")}

\* lines the local model may produce
GeneratedLines ==
    {Line("typed", 1, "premise", "X"),
     Line("typed", 2, "conclusion", "therefore Y"),
     Line("typed", 3, "conclusion", ""),
     Line("dash", 0, "", "you are wrong"),
     Line("prose", 0, "", "X")}

\* lines an external backend may answer a counterargument prompt with
CounterargumentLines ==
    {Line("dash", 0, "", "X"), Line("numbered", 1, "", "X"),
     Line("blank", 0, "", "")}

\* the number of lines of a text that are of one of the kinds
CountKinds(text, kinds) == Len(SelectSeqOf(text, kinds))

Raises == [raises |-> TRUE, text |-> <<>>]
Returns(text) == [raises |-> FALSE, text |-> text]
Outcomes(lines) == {Raises} \cup {Returns(t) : t \in SeqsUpTo(lines, MaxLines)}

\* what a call of a backend can do: raise, or return a text
ResponseOutcomes == Outcomes(ResponseLines)
GeneratedOutcomes == Outcomes(GeneratedLines)
CounterargumentOutcomes == Outcomes(CounterargumentLines)

\* ------------------------------------------------------------- the state
VARIABLES
    generator,         \* self.generator is set
    openai_client,     \* self.openai_client is set
    anthropic_client,  \* self.anthropic_client is set
    loadTask,          \* the task of _load_models: "scheduled" or "done"
    initTask,          \* the task of _init_llm_clients
    pc,                \* where the request in progress stands
    req,               \* the request in progress
    selected,          \* the generation path chosen for it
    chains,            \* the chains of the request
    genInput,          \* what the generation path last worked from
    extAttempts,       \* generation calls to an external backend
    fbAttempts,        \* runs of the fallback builder
    ctrCalls,          \* counterargument calls to an external backend
    extRaised,         \* a generation call to an external backend raised
    cur,               \* analysis pass: index of the chain being enhanced
    sub,               \* analysis pass: the next of its five sub-steps
    faults,            \* whether analysis sub-steps may raise
    call,              \* a direct call of one method: its name and arguments
    result             \* what that call returned

vars == <<generator, openai_client, anthropic_client, loadTask, initTask,
          pc, req, selected, chains, genInput, extAttempts, fbAttempts,
          ctrCalls, extRaised, cur, sub, faults, call, result>>

handles == <<generator, openai_client, anthropic_client>>
tasks == <<loadTask, initTask>>
unit == <<call, result>>

\* no method is being called directly
NoCall == [fn |-> NoneType]
NoResult == [done |-> FALSE]

NoRequest == [claim |-> NoneType, evidence |-> <<>>,
              reasoning_type |-> NoneType, complexity_ok |-> TRUE,
              max_steps |-> 0, use_llm |-> FALSE]
\* kind: "response" (an external backend was called), "generated" (the local
\* model was called), "nomodel" (there is no local model); raised: the call
\* raised; lines: the lines of the text it returned; stepLines: those of
\* them the parser of the path takes for steps
Input(kind, out, stepLines) ==
    [kind |-> kind, raised |-> out.raises, lines |-> Len(out.text),
     stepLines |-> stepLines]
NoInput == Input("none", Returns(<<>>), 0)

\* __init__: the handles are None and the two tasks are only scheduled
InitEngine ==
    /\ generator = FALSE /\ openai_client = FALSE /\ anthropic_client = FALSE
    /\ loadTask = "scheduled" /\ initTask = "scheduled"
    /\ pc = "idle" /\ req = NoRequest /\ selected = NoneType
    /\ chains = <<>> /\ genInput = NoInput
    /\ extAttempts = 0 /\ fbAttempts = 0 /\ ctrCalls = 0
    /\ extRaised = FALSE
    /\ cur = 1 /\ sub = 1

Init == InitEngine /\ faults = FALSE /\ call = NoCall /\ result = NoResult
InitFaults ==
    InitEngine /\ faults = TRUE /\ call = NoCall /\ result = NoResult

\* The tasks run when the event loop is free: between requests, and while a
\* request is suspended in a call of the asynchronous (OpenAI) client.
Suspended ==
    \/ pc = "idle"
    \/ /\ openai_client /\ ~anthropic_client
       /\ pc = "gen_external" \/ (pc \in {"built", "analyzing"} /\ sub = 3)

\* _load_models: the pipeline loads, or fails and leaves the handle None
LoadModels ==
    /\ loadTask = "scheduled" /\ Suspended
    /\ loadTask' = "done"
    /\ generator' \in BOOLEAN
    /\ UNCHANGED <<openai_client, anthropic_client, initTask, pc, req,
                   selected, chains, genInput, extAttempts, fbAttempts,
                   ctrCalls, extRaised, cur, sub, faults, unit>>

\* _init_llm_clients: a client for each API key the environment holds
InitLlmClients ==
    /\ initTask = "scheduled" /\ Suspended
    /\ initTask' = "done"
    /\ openai_client' \in BOOLEAN
    /\ anthropic_client' \in BOOLEAN
    /\ UNCHANGED <<generator, loadTask, pc, req, selected, chains, genInput,
                   extAttempts, fbAttempts, ctrCalls, extRaised, cur, sub,
                   faults, unit>>

\* POST /reasoning/generate, or a direct call of generate_reasoning_chain.
\* AdvancedReasoningRequest requires claim (any string, the empty one too)
\* and a reasoning_type of the enumeration; a request without them never
\* reaches the handler. complexity_ok is whether complexity is a
\* ReasoningComplexity (a direct call) or a plain str (the HTTP handler
\* passes request.complexity as it is).
Submit(claim, evidence, rt, cx, ms, ul) ==
    /\ pc = "idle"
    /\ req' = [claim |-> claim, evidence |-> evidence, reasoning_type |-> rt,
               complexity_ok |-> cx, max_steps |-> ms, use_llm |-> ul]
    /\ pc' = IF claim = NoneType \/ rt \notin ReasoningTypes
             THEN "rejected" ELSE "requested"
    /\ UNCHANGED <<handles, tasks, selected, chains, genInput, extAttempts,
                   fbAttempts, ctrCalls, extRaised, cur, sub, faults, unit>>

\* generate_reasoning_chain, the choice of the path, with the choice of the
\* client in _generate_llm_reasoning
\* the two clients tested in the other order
SelectedPathOpenaiFirst(use_llm, openai, anthropic) ==
    IF use_llm /\ (openai \/ anthropic)
    THEN IF openai THEN "openai" ELSE "anthropic"
    ELSE "fallback"

SelectedPath(use_llm, openai, anthropic) ==
    IF use_llm /\ (openai \/ anthropic)
    THEN IF anthropic THEN "anthropic"
         ELSE IF openai THEN "openai"
         ELSE "fallback"
    ELSE "fallback"

Select ==
    /\ pc = "requested"
    /\ selected' = SelectedPath(req.use_llm, openai_client, anthropic_client)
    /\ pc' = IF selected' = "fallback" THEN "gen_fallback" ELSE "gen_external"
    /\ UNCHANGED <<handles, tasks, req, chains, genInput, extAttempts,
                   fbAttempts, ctrCalls, extRaised, cur, sub, faults, unit>>

\* _generate_anthropic_reasoning / _generate_openai_reasoning: what the call
\* returns for the backend's outcome. An exception of the backend call is
\* caught here and gives the empty list.
ExternalReasoning(out, rt) ==
    IF out.raises THEN <<>>
    ELSE ParseStructuredReasoning(out.text, rt)

\* _generate_llm_reasoning with the chosen client. _build_advanced_prompt
\* reads complexity.value before the method's try block: with a str it
\* raises, which the except of _generate_llm_reasoning answers by running
\* the fallback builder.
ExternalGenerate ==
    /\ pc = "gen_external"
    /\ IF ~req.complexity_ok
       THEN /\ pc' = "gen_fallback"
            /\ UNCHANGED <<chains, genInput, extAttempts, extRaised>>
       ELSE \E out \in ResponseOutcomes :
              /\ extAttempts' = extAttempts + 1
              /\ extRaised' = out.raises
              /\ genInput' = Input("response", out,
                                   CountKinds(out.text, {"step"}))
              /\ chains' = ExternalReasoning(out, req.reasoning_type)
              /\ pc' = "built"
    /\ UNCHANGED <<handles, tasks, req, selected, fbAttempts, ctrCalls, cur,
                   sub, faults, unit>>

\* _generate_fallback_reasoning
FallbackGenerate ==
    /\ pc = "gen_fallback"
    /\ \E out \in (IF generator THEN GeneratedOutcomes
                   ELSE {Returns(<<>>)}) :
         /\ genInput' = Input(IF generator THEN "generated" ELSE "nomodel",
                              out, Len(ParseReasoningSteps(out.text)))
         /\ chains' = FallbackReasoning(req.reasoning_type, generator, out,
                                        req.max_steps)
    /\ fbAttempts' = fbAttempts + 1
    /\ pc' = "built"
    /\ UNCHANGED <<handles, tasks, req, selected, extAttempts, ctrCalls,
                   extRaised, cur, sub, faults, unit>>

\* ------------------------------------------------------ the analysis pass
\* generate_reasoning_chain, `for chain in chains`: five awaited sub-steps a
\* chain, in this order, each assigning one field. An exception of a
\* sub-step leaves the loop for the method's only handler, which logs and
\* raises again.
Enhancing(k) ==
    /\ pc \in {"built", "analyzing"}
    /\ cur <= Len(chains)
    /\ sub = k

\* a loop that starts over on the chain it has just enhanced
AdvanceStartOver(k) ==
    /\ sub' = IF k = 5 THEN 1 ELSE k + 1
    /\ cur' = cur
    /\ pc' = "analyzing"

Advance(k) ==
    /\ sub' = IF k = 5 THEN 1 ELSE k + 1
    /\ cur' = IF k = 5 THEN cur + 1 ELSE cur
    /\ pc' = IF k = 5 /\ cur = Len(chains) THEN "analyzed" ELSE "analyzing"

Assign(field, value) ==
    chains' = [chains EXCEPT ![cur][field] = value,
                             ![cur].writes[field] = Append(@, "pass")]

SubStep(k, field, value) ==
    /\ Enhancing(k)
    /\ \E raised \in (IF faults THEN BOOLEAN ELSE {FALSE}) :
         IF raised
         THEN pc' = "failed" /\ UNCHANGED <<chains, cur, sub>>
         ELSE Assign(field, value) /\ Advance(k)
    /\ UNCHANGED <<handles, tasks, req, selected, genInput, extAttempts,
                   fbAttempts, ctrCalls, extRaised, faults, unit>>

\* chain.fallacies = await self._detect_fallacies(chain)
StepFallacies ==
    SubStep(1, "fallacies", DetectFallacies(chains[cur]))

\* chain.logical_gaps = await self._identify_logical_gaps(chain, evidence)
StepGaps ==
    SubStep(2, "logical_gaps", IdentifyLogicalGaps(chains[cur], req.evidence))

\* chain.counterarguments = await self._generate_counterarguments(claim, chain)
StepCounterarguments ==
    /\ Enhancing(3)
    /\ LET clients == openai_client \/ anthropic_client IN
       \E out \in (IF clients THEN CounterargumentOutcomes
                   ELSE {Returns(<<>>)}) :
         /\ Assign("counterarguments", GenerateCounterarguments(clients, out))
         /\ ctrCalls' = IF clients THEN ctrCalls + 1 ELSE ctrCalls
    /\ Advance(3)
    /\ UNCHANGED <<handles, tasks, req, selected, genInput, extAttempts,
                   fbAttempts, extRaised, faults, unit>>

\* chain.premise_strength = await self._assess_premise_strength(chain)
StepPremiseStrength ==
    SubStep(4, "premise_strength", AssessPremiseStrength(chains[cur]))

\* chain.evidence_requirements = await self._identify_evidence_requirements(chain)
StepEvidenceRequirements ==
    SubStep(5, "evidence_requirements",
            IdentifyEvidenceRequirements(chains[cur]))

\* return ReasoningResponse(reasoning_chains=chains, ...)
Return ==
    /\ pc = "analyzed" \/ (pc = "built" /\ chains = <<>>)
    /\ pc' = "returned"
    /\ UNCHANGED <<handles, tasks, req, selected, chains, genInput,
                   extAttempts, fbAttempts, ctrCalls, extRaised, cur, sub,
                   faults, unit>>

\* an end of the request that also lets go of the local model
FinishReleasingGenerator ==
    /\ pc \in {"returned", "failed", "rejected"}
    /\ pc' = "idle" /\ req' = NoRequest /\ selected' = NoneType
    /\ chains' = <<>> /\ genInput' = NoInput
    /\ extAttempts' = 0 /\ fbAttempts' = 0 /\ ctrCalls' = 0
    /\ extRaised' = FALSE
    /\ cur' = 1 /\ sub' = 1
    /\ generator' = FALSE
    /\ UNCHANGED <<openai_client, anthropic_client, tasks, faults, unit>>

\* the request is over (answered, failed or rejected); the next one starts
\* from a clean slate
Finish ==
    /\ pc \in {"returned", "failed", "rejected"}
    /\ pc' = "idle" /\ req' = NoRequest /\ selected' = NoneType
    /\ chains' = <<>> /\ genInput' = NoInput
    /\ extAttempts' = 0 /\ fbAttempts' = 0 /\ ctrCalls' = 0
    /\ extRaised' = FALSE
    /\ cur' = 1 /\ sub' = 1
    /\ UNCHANGED <<handles, tasks, faults, unit>>

Next ==
    \/ LoadModels
    \/ InitLlmClients
    \/ \E claim \in Claims \cup {NoneType},
          rt \in ReasoningTypes \cup {"bogus"}, cx \in BOOLEAN,
          ms \in 0..MaxSteps, ul \in BOOLEAN :
         Submit(claim, EvidenceOf(claim), rt, cx, ms, ul)
    \/ Select
    \/ ExternalGenerate
    \/ FallbackGenerate
    \/ StepFallacies
    \/ StepGaps
    \/ StepCounterarguments
    \/ StepPremiseStrength
    \/ StepEvidenceRequirements
    \/ Return
    \/ Finish

Spec == Init /\ [][Next]_vars
SpecFaults == InitFaults /\ [][Next]_vars

\* ------------------------------------------- direct calls of one method
\* The methods of the analysis suite and the parser are also called on their
\* own: by POST /reasoning/analyze and /reasoning/validate with a chain or
\* steps the caller wrote, and by the tests. A call is drawn from the sets
\* below, and the action of the method called applies it.
MaxChainSteps == 3
MaxEntries == 2
MaxReplyLines == 4
MaxClaims == 3

\* steps a caller may write (the step number is the place in the list)
StepPool ==
    {[text |-> "X", confidence |-> 90, type |-> "premise",
      evidence_used |-> <<"e1">>],
     [text |-> "X", confidence |-> 50, type |-> "premise",
      evidence_used |-> <<>>],
     [text |-> "therefore Y", confidence |-> 50, type |-> "premise",
      evidence_used |-> <<"e1">>],
     [text |-> "therefore Y", confidence |-> 80, type |-> "inference",
      evidence_used |-> <<>>],
     [text |-> "therefore Y", confidence |-> 90, type |-> "conclusion",
      evidence_used |-> <<>>],
     [text |-> "X", confidence |-> 50, type |-> "conclusion",
      evidence_used |-> <<>>]}

Numbered(ps) ==
    [i \in 1..Len(ps) |->
        ReasoningStep(i, ps[i].text, ps[i].confidence, ps[i].type,
                      ps[i].evidence_used)]

StepLists == {Numbered(ps) : ps \in SeqsUpTo(StepPool, MaxChainSteps)}

\* the ReasoningChain a caller builds around a step list
ChainOf(steps, rt) ==
    ReasoningChain(steps, rt, OverallConfidence(steps),
                   AssessLogicalValidity(steps, rt))

\* responses in the format the prompt asks for: the two steps, then the
\* four named sections in some order, each with the same listed entries
SectionHeaders == {"hdrA", "hdrW", "hdrE", "hdrC"}
EntryLines == {Line("dash", 0, "", "X"), Line("numbered", 1, "", "X")}
EntryLists == SeqsUpTo(EntryLines, MaxEntries) \ {<<>>}
HeaderOrders ==
    {o \in [1..4 -> SectionHeaders] : \A i, j \in 1..4 : o[i] = o[j] => i = j}

StepsBody ==
    <<Line("step", 1, "PREMISE", "X"),
      Line("step", 2, "CONCLUSION", "therefore Y")>>

Block(hdr, entries) == <<Line(hdr, 0, "", "")>> \o entries

FormattedResponse(o, entries) ==
    StepsBody \o Block(o[1], entries) \o Block(o[2], entries)
              \o Block(o[3], entries) \o Block(o[4], entries)

FormattedResponses ==
    {FormattedResponse(o, es) : o \in HeaderOrders, es \in EntryLists}

\* lines a backend may answer the counterargument prompt with
ReplyLines ==
    CounterargumentLines \cup {Line("dash", 0, "", "therefore Y"),
                               Line("dot", 0, "", "X")}
ReplyOutcomes ==
    {Raises} \cup {Returns(t) : t \in SeqsUpTo(ReplyLines, MaxReplyLines)}

\* step texts that commit one of the ten fallacies each, and a sound one
FallacyTexts ==
    {"you are wrong", "misrepresent the opposing position",
     "only two option", "prove the conclusion by assuming",
     "all swans in the park are", "this will lead to disaster",
     "experts say so", "it rained after the dance",
     "think of the children", "everyone believes it", "X"}

FallacyStepLists ==
    {[i \in 1..Len(ts) |-> ReasoningStep(i, ts[i], 80, "inference", <<>>)] :
        ts \in SeqsUpTo(FallacyTexts, MaxSteps)}

\* request.reasoning_steps of a validation request
ValidationTexts == {"X", "therefore Y", "you are wrong"}
ValidationRequests ==
    {[reasoning_steps |-> ts, reasoning_type |-> rt, evidence |-> ev] :
        ts \in SeqsUpTo(ValidationTexts, MaxChainSteps),
        rt \in {"deductive", "inductive"},
        ev \in {<<>>, <<"e1">>}}

\* what the backends do for one claim of a multi-claim request: gen is the
\* outcome of the generation call (of the external backend or of the local
\* model, whichever the path uses), ctr that of the counterargument call
ClaimOutcomes ==
    {[gen |-> g, ctr |-> c] :
        g \in {Raises, Returns(StepsBody),
               Returns(<<Line("typed", 1, "premise", "X")>>)},
        c \in {Raises, Returns(<<Line("dash", 0, "", "X")>>)}}

\* MultiClaimReasoningRequest, with the outcomes of its claims in the place
\* of their texts
MultiClaimRequests ==
    {[claims |-> os, reasoning_type |-> rt, max_depth |-> d] :
        os \in SeqsUpTo(ClaimOutcomes, MaxClaims),
        rt \in {"deductive", "inductive"},
        d \in {1}}

Calls ==
    {[fn |-> "_parse_structured_reasoning", reasoning_text |-> t,
      reasoning_type |-> rt] :
        t \in FormattedResponses \cup SeqsUpTo(ResponseLines, MaxLines),
        rt \in ReasoningTypes}
    \cup {[fn |-> "_assess_logical_validity", steps |-> st,
           reasoning_type |-> rt] : st \in StepLists, rt \in ReasoningTypes}
    \cup {[fn |-> f, chain |-> ChainOf(st, rt)] :
            f \in {"_identify_logical_gaps", "_assess_premise_strength",
                   "_identify_evidence_requirements"},
            st \in StepLists, rt \in ReasoningTypes}
    \cup {[fn |-> "_generate_counterarguments", out |-> out] :
            out \in ReplyOutcomes}
    \cup {[fn |-> "_detect_fallacies", chain |-> ChainOf(st, "deductive")] :
            st \in FallacyStepLists}
    \cup {[fn |-> "validate_reasoning_logic", request |-> r] :
            r \in ValidationRequests}
    \cup {[fn |-> "analyze_multi_claim_reasoning", request |-> r] :
            r \in MultiClaimRequests}

\* the engine when the call is made: the handles are set or not
InitUnit ==
    /\ call \in Calls /\ result = NoResult
    /\ generator \in BOOLEAN /\ openai_client \in BOOLEAN
    /\ anthropic_client \in BOOLEAN
    /\ (call.fn \notin {"_generate_counterarguments",
                         "analyze_multi_claim_reasoning"})
          => (~generator /\ ~openai_client /\ ~anthropic_client)
    /\ loadTask = "done" /\ initTask = "done"
    /\ pc = "idle" /\ req = NoRequest /\ selected = NoneType
    /\ chains = <<>> /\ genInput = NoInput
    /\ extAttempts = 0 /\ fbAttempts = 0 /\ ctrCalls = 0
    /\ extRaised = FALSE
    /\ cur = 1 /\ sub = 1
    /\ faults = FALSE

Called(fn) == call.fn = fn /\ ~result.done

Returned(value) ==
    result' = [done |-> TRUE, value |-> value]

engine == <<handles, tasks, pc, req, selected, chains, genInput, extAttempts,
            fbAttempts, extRaised, cur, sub, faults>>

CallParseStructuredReasoning ==
    /\ Called("_parse_structured_reasoning")
    /\ Returned(ParseStructuredReasoning(call.reasoning_text,
                                         call.reasoning_type))
    /\ UNCHANGED <<engine, ctrCalls, call>>

CallAssessLogicalValidity ==
    /\ Called("_assess_logical_validity")
    /\ Returned(AssessLogicalValidity(call.steps, call.reasoning_type))
    /\ UNCHANGED <<engine, ctrCalls, call>>

CallIdentifyLogicalGaps ==
    /\ Called("_identify_logical_gaps")
    /\ Returned(IdentifyLogicalGaps(call.chain, <<>>))
    /\ UNCHANGED <<engine, ctrCalls, call>>

CallAssessPremiseStrength ==
    /\ Called("_assess_premise_strength")
    /\ Returned(AssessPremiseStrength(call.chain))
    /\ UNCHANGED <<engine, ctrCalls, call>>

CallIdentifyEvidenceRequirements ==
    /\ Called("_identify_evidence_requirements")
    /\ Returned(IdentifyEvidenceRequirements(call.chain))
    /\ UNCHANGED <<engine, ctrCalls, call>>

CallGenerateCounterarguments ==
    /\ Called("_generate_counterarguments")
    /\ LET clients == openai_client \/ anthropic_client IN
         /\ Returned(GenerateCounterarguments(clients, call.out))
         /\ ctrCalls' = IF clients THEN ctrCalls + 1 ELSE ctrCalls
    /\ UNCHANGED <<engine, call>>

CallDetectFallacies ==
    /\ Called("_detect_fallacies")
    /\ Returned(DetectFallacies(call.chain))
    /\ UNCHANGED <<engine, ctrCalls, call>>

\* ------------------------------------------------- validate_reasoning_logic
ValidationConfidence == 80
GapPenalty == 10
FallacyPenalty == 15
ValidThreshold == 60

\* steps that are all taken as premises
ValidationStepsAsPremises(texts) ==
    [i \in 1..Len(texts) |->
        ReasoningStep(i, texts[i], ValidationConfidence, "premise", <<>>)]

\* steps = [ReasoningStep(step_number=i+1, text=step_text, confidence=0.8,
\*          type="inference", evidence_used=[]) for i, step_text in ...]
ValidationSteps(texts) ==
    [i \in 1..Len(texts) |->
        ReasoningStep(i, texts[i], ValidationConfidence, "inference", <<>>)]

\* a score that is capped at 1.0 only
ValidationScoreNoFloor(logical_validity, logical_gaps, fallacies) ==
    Min(Unit,
        logical_validity
          - Len(logical_gaps) * ((GapPenalty * Unit) \div 100)
          - Len(fallacies) * ((FallacyPenalty * Unit) \div 100))

\* validation_score = max(0.0, min(1.0, validation_score))
ValidationScore(logical_validity, logical_gaps, fallacies) ==
    LET raw == logical_validity
                 - Len(logical_gaps) * ((GapPenalty * Unit) \div 100)
                 - Len(fallacies) * ((FallacyPenalty * Unit) \div 100)
        capped == Min(Unit, raw)
    IN IF capped < 0 THEN 0 ELSE capped

\* the response of the handler
ValidateReasoningLogic(request) ==
    LET steps == ValidationSteps(request.reasoning_steps)
        logical_validity ==
            AssessLogicalValidity(steps, request.reasoning_type)
        temp_chain ==
            ReasoningChain(steps, request.reasoning_type,
                           (ValidationConfidence * Unit) \div 100,
                           logical_validity)
        logical_gaps == IdentifyLogicalGaps(temp_chain, request.evidence)
        fallacies == DetectFallacies(temp_chain)
        validation_score ==
            ValidationScore(logical_validity, logical_gaps, fallacies)
    IN [reasoning_type |-> request.reasoning_type,
        validation_score |-> validation_score,
        logical_validity |-> logical_validity,
        is_valid |-> validation_score > (ValidThreshold * Unit) \div 100,
        logical_gaps |-> logical_gaps,
        fallacies |-> fallacies,
        step_analysis |-> steps]

CallValidateReasoningLogic ==
    /\ Called("validate_reasoning_logic")
    /\ Returned(ValidateReasoningLogic(call.request))
    /\ UNCHANGED <<engine, ctrCalls, call>>

\* --------------------------------------------- analyze_multi_claim_reasoning
\* generate_reasoning_chain as one call: the chains of the selected path,
\* each enhanced by the five sub-steps of the analysis pass
EnhancedChain(chain, evidence, ctr) ==
    LET clients == openai_client \/ anthropic_client IN
    [chain EXCEPT
       !.fallacies = DetectFallacies(chain),
       !.logical_gaps = IdentifyLogicalGaps(chain, evidence),
       !.counterarguments = GenerateCounterarguments(clients, ctr),
       !.premise_strength = AssessPremiseStrength(chain),
       !.evidence_requirements = IdentifyEvidenceRequirements(chain),
       !.writes = [f \in AnalysisFields |-> Append(@[f], "pass")]]

GenerateReasoningChain(evidence, rt, max_steps, use_llm, o) ==
    LET built ==
          IF SelectedPath(use_llm, openai_client, anthropic_client)
               = "fallback"
          THEN FallbackReasoning(rt, generator, o.gen, max_steps)
          ELSE ExternalReasoning(o.gen, rt)
    IN [i \in 1..Len(built) |-> EnhancedChain(built[i], evidence, o.ctr)]

\* a handler that passes the request's type for the first claim only
ClaimReasoningTypeFirstOnly(request, i) ==
    IF i = 1 THEN request.reasoning_type ELSE "deductive"

\* reasoning_type=request.reasoning_type
ClaimReasoningType(request, i) == request.reasoning_type

RECURSIVE PrimaryChainsLastFirst(_, _)
\* a loop that puts the chains of a claim before those it already has
PrimaryChainsLastFirst(request, i) ==
    IF i > Len(request.claims) THEN <<>>
    ELSE PrimaryChainsLastFirst(request, i + 1)
         \o GenerateReasoningChain(<<>>, ClaimReasoningType(request, i),
                                   request.max_depth + 2, TRUE,
                                   request.claims[i])

RECURSIVE PrimaryChains(_, _)
\* for claim in request.claims: ... primary_chains.extend(...), from the
\* i-th claim on
PrimaryChains(request, i) ==
    IF i > Len(request.claims) THEN <<>>
    ELSE GenerateReasoningChain(<<>>, ClaimReasoningType(request, i),
                                request.max_depth + 2, TRUE,
                                request.claims[i])
         \o PrimaryChains(request, i + 1)

RECURSIVE SumValidity(_)
SumValidity(cs) ==
    IF cs = <<>> THEN 0 ELSE Head(cs).logical_validity + SumValidity(Tail(cs))

NetworkValidity(cs) ==
    IF cs # <<>> THEN SumValidity(cs) \div Len(cs) ELSE 0

MismatchEntry == "Mismatch between number of claims and reasoning chains"
MixedTypesEntry == "Mixed reasoning types may create logical inconsistencies"

\* _identify_claim_inconsistencies
IdentifyClaimInconsistencies(claims, cs) ==
    (IF Len(cs) # Len(claims) THEN <<MismatchEntry>> ELSE <<>>)
    \o (IF Cardinality({cs[i].reasoning_type : i \in 1..Len(cs)}) > 1
        THEN <<MixedTypesEntry>> ELSE <<>>)

\* the response of the handler
AnalyzeMultiClaimReasoning(request) ==
    LET primary_chains == PrimaryChains(request, 1) IN
    [primary_reasoning_chains |-> primary_chains,
     network_validity |-> NetworkValidity(primary_chains),
     inconsistencies |->
        IdentifyClaimInconsistencies(request.claims, primary_chains),
     claim_count |-> Len(request.claims)]

\* the handler; every claim is generated with use_llm=True, so each makes a
\* generation call to the external backend when a client is configured,
\* and each chain a counterargument call
CallAnalyzeMultiClaimReasoning ==
    /\ Called("analyze_multi_claim_reasoning")
    /\ LET response == AnalyzeMultiClaimReasoning(call.request)
           clients == openai_client \/ anthropic_client
       IN /\ Returned(response)
          /\ extAttempts' = IF clients THEN Len(call.request.claims)
                            ELSE extAttempts
          /\ fbAttempts' = IF clients THEN fbAttempts
                           ELSE Len(call.request.claims)
          /\ ctrCalls' = IF clients
                         THEN Len(response.primary_reasoning_chains)
                         ELSE ctrCalls
    /\ UNCHANGED <<handles, tasks, pc, req, selected, chains, genInput,
                   extRaised, cur, sub, faults, call>>

NextUnit ==
    \/ CallParseStructuredReasoning
    \/ CallAssessLogicalValidity
    \/ CallIdentifyLogicalGaps
    \/ CallAssessPremiseStrength
    \/ CallIdentifyEvidenceRequirements
    \/ CallGenerateCounterarguments
    \/ CallDetectFallacies
    \/ CallValidateReasoningLogic
    \/ CallAnalyzeMultiClaimReasoning

SpecUnit == InitUnit /\ [][NextUnit]_vars

\* ------------------------------------------------------------ the claims
\* the request has been through generation
Generated == pc \in {"built", "analyzing", "analyzed", "returned", "failed"}

\* C1: when the generation call to the external backend raises, the fallback
\* builder is then run (and the call does not fail).
C1_BackendFailureRunsFallback ==
    (Generated /\ extRaised) => (fbAttempts = 1 /\ pc # "failed")

\* C2 as stated: the primary (Anthropic) when use_external and it is
\* configured; otherwise the secondary (OpenAI) whenever it is configured;
\* otherwise the fallback builder.
C2_SelectionAsStated ==
    selected # NoneType =>
        selected = (IF req.use_llm /\ anthropic_client THEN "anthropic"
                    ELSE IF openai_client THEN "openai"
                    ELSE "fallback")

\* C2 amended: the primary when use_external and it is configured; otherwise
\* the secondary when use_external and it is configured; otherwise the
\* fallback builder. Only the chosen backend generates: an external backend
\* is called at most once and only when one was chosen, and no external
\* backend is called for generation when the fallback builder was chosen.
C2_Selection ==
    selected # NoneType =>
        /\ selected = (IF req.use_llm /\ anthropic_client THEN "anthropic"
                       ELSE IF req.use_llm /\ openai_client THEN "openai"
                       ELSE "fallback")
        /\ selected = "fallback" => extAttempts = 0
        /\ (Generated /\ selected = "fallback") => fbAttempts = 1
        /\ (Generated /\ selected # "fallback" /\ req.complexity_ok)
              => (extAttempts = 1 /\ fbAttempts = 0)

C2_Witness ==
    /\ pc = "returned" /\ ~req.use_llm /\ openai_client /\ ~anthropic_client
    /\ selected = "fallback" /\ fbAttempts = 1 /\ Len(chains) = 1

\* C3: with use_llm false the call does not raise, the fallback builder
\* runs, no external backend generates, and the result is a list of at most
\* one chain, of the requested type and with logical_validity in [0,1].
C3_FallbackNeverRaises ==
    (~req.use_llm /\ pc \notin {"idle", "rejected"}) =>
        /\ pc # "failed"
        /\ extAttempts = 0
        /\ Generated =>
             /\ fbAttempts = 1
             /\ Len(chains) <= 1
             /\ \A i \in 1..Len(chains) :
                  /\ chains[i].reasoning_type = req.reasoning_type
                  /\ chains[i].logical_validity >= 0
                  /\ chains[i].logical_validity <= Unit

C3_Witness ==
    /\ pc = "returned" /\ ~req.use_llm /\ req.reasoning_type = "inductive"
    /\ genInput.kind = "generated" /\ genInput.stepLines = 2
    /\ Len(chains) = 1 /\ Len(chains[1].steps) = 2
    /\ chains[1].logical_validity > 0

\* C4: the failure of an analysis sub-step never fails the request: the
\* chain is still analysed by the other sub-steps and returned.
C4_SubStepFailureContained == pc # "failed"

\* C5: a request with an empty claim is rejected, and nothing is generated
\* or analysed for it.
C5_EmptyClaimRejected ==
    (pc # "idle" /\ req.claim = "") =>
        /\ pc = "rejected"
        /\ extAttempts = 0 /\ fbAttempts = 0 /\ chains = <<>>

\* the place of a state in the lifecycle REQUESTED, GENERATING (external,
\* then fallback), PARSED/BUILT, ANALYZED, RETURNED
Rank(p) ==
    CASE p = "idle" -> 0
      [] p = "requested" -> 1
      [] p = "gen_external" -> 2
      [] p = "gen_fallback" -> 3
      [] p = "built" -> 4
      [] p = "analyzing" -> 5
      [] p = "analyzed" -> 6
      [] OTHER -> 7

\* how often the analysis pass has assigned field f of a chain
PassWrites(chain, f) ==
    Cardinality({n \in 1..Len(chain.writes[f]) : chain.writes[f][n] = "pass"})

\* C6: a request only moves forward through the lifecycle; it makes at most
\* one external generation attempt and at most one fallback attempt, nothing
\* is analysed before generation has finished, no field is analysed twice,
\* and a returned chain has been through each sub-step once.
C6_Lifecycle ==
    /\ [][pc' # pc => IF pc' = "idle" THEN Rank(pc) = 7
                      ELSE Rank(pc') > Rank(pc)]_vars
    /\ [][(extAttempts' # extAttempts \/ fbAttempts' # fbAttempts)
            => (pc \in {"gen_external", "gen_fallback"} \/ pc' = "idle")]_vars
    /\ [](/\ extAttempts <= 1 /\ fbAttempts <= 1
          /\ Rank(pc) <= 3 => chains = <<>>
          /\ \A i \in 1..Len(chains) : \A f \in AnalysisFields :
               /\ PassWrites(chains[i], f) <= 1
               /\ pc = "built" => PassWrites(chains[i], f) = 0
               /\ pc \in {"analyzed", "returned"}
                    => PassWrites(chains[i], f) = 1)

C6_Witness ==
    /\ pc = "returned" /\ selected = "openai" /\ extAttempts = 0
    /\ fbAttempts = 1 /\ Len(chains) = 1
    /\ \A f \in AnalysisFields : PassWrites(chains[1], f) = 1

\* the analysis pass has not begun on chain i
Untouched(i) ==
    pc = "built" \/ (pc = "analyzing" /\ (i > cur \/ (i = cur /\ sub = 1)))

\* C7 as stated: before the pass runs on a chain nothing has assigned its
\* analysis fields, and no analysis field is ever assigned twice.
C7_FieldsAsStated ==
    \A i \in 1..Len(chains) : \A f \in AnalysisFields :
        /\ Untouched(i) => chains[i].writes[f] = <<>>
        /\ Len(chains[i].writes[f]) <= 1

\* C7 amended: before the pass runs on a chain, fallacies, logical_gaps and
\* premise_strength hold their defaults and nothing has assigned them;
\* counterarguments and evidence_requirements have been assigned by the
\* structured-response parser (the external path) or by nothing (the
\* fallback path, where they hold their defaults). The pass assigns each of
\* the five fields at most once, after any assignment of the parser.
C7_Fields ==
    \A i \in 1..Len(chains) :
        /\ \A f \in AnalysisFields :
             /\ PassWrites(chains[i], f) <= 1
             /\ chains[i].writes[f] \in
                  {<<>>, <<"parser">>, <<"pass">>, <<"parser", "pass">>}
        /\ Untouched(i) =>
             /\ chains[i].fallacies = <<>>
             /\ chains[i].logical_gaps = <<>>
             /\ chains[i].premise_strength = EmptyDict
             /\ \A f \in {"fallacies", "logical_gaps", "premise_strength"} :
                  chains[i].writes[f] = <<>>
             /\ \A f \in {"counterarguments", "evidence_requirements"} :
                  chains[i].writes[f] =
                      IF genInput.kind = "response" THEN <<"parser">>
                      ELSE <<>>
             /\ genInput.kind # "response" =>
                  /\ chains[i].counterarguments = <<>>
                  /\ chains[i].evidence_requirements = <<>>

C7_Witness ==
    /\ pc = "returned" /\ Len(chains) = 1 /\ genInput.kind = "response"
    /\ chains[1].writes["counterarguments"] = <<"parser", "pass">>
    /\ chains[1].writes["fallacies"] = <<"pass">>

\* C8: a response without a step line gives the empty list of chains.
C8_NoStepLineNoChain ==
    (Generated /\ genInput.kind = "response" /\ ~genInput.raised
       /\ genInput.stepLines = 0)
        => chains = <<>>

\* C9: the fallback builder returns no chain when there is no local model or
\* its output has no parseable step line, and one chain otherwise.
C9_FallbackChainCount ==
    (Generated /\ fbAttempts = 1) =>
        Len(chains) = (IF genInput.kind = "nomodel" \/ genInput.stepLines = 0
                       THEN 0 ELSE 1)

\* C10: the step numbers of every generated chain are 1, 2, ..., n in order.
C10_StepNumbersContiguous ==
    \A i \in 1..Len(chains) : \A j \in 1..Len(chains[i].steps) :
        chains[i].steps[j].step_number = j

\* a direct call of method fn has returned
Done(fn) == call.fn = fn /\ result.done

\* C11: a response with the steps 'Step 1: [PREMISE] - X' and
\* 'Step 2: [CONCLUSION] - Y' followed by the four named sections, each with
\* at least one entry, parses to one chain with exactly these two steps in
\* order, typed premise and conclusion, and with non-empty assumptions,
\* weaknesses, evidence_requirements and counterarguments.
C11_RoundTrip ==
    (Done("_parse_structured_reasoning")
       /\ call.reasoning_text \in FormattedResponses) =>
        /\ Len(result.value) = 1
        /\ LET chain == result.value[1] IN
             /\ Len(chain.steps) = 2
             /\ chain.steps[1].type = "premise" /\ chain.steps[1].text = "X"
             /\ chain.steps[2].type = "conclusion"
             /\ chain.steps[2].text = "therefore Y"
             /\ chain.assumptions # <<>> /\ chain.weaknesses # <<>>
             /\ chain.evidence_requirements # <<>>
             /\ chain.counterarguments # <<>>

C11_Witness ==
    /\ Done("_parse_structured_reasoning")
    /\ call.reasoning_text \in FormattedResponses
    /\ call.reasoning_text[3].kind = "hdrC"
    /\ call.reasoning_text[Len(call.reasoning_text) - 1].kind = "hdrW"
    /\ Len(result.value[1].steps) = 2
    /\ Len(result.value[1].weaknesses) = 1

\* C12: every chain a generation path produces has overall_confidence equal
\* to the arithmetic mean of its steps' confidences when it has a step, and
\* overall_confidence 0 and logical_validity 0 when it has none.
C12_OverallConfidence ==
    \A i \in 1..Len(chains) :
        LET steps == chains[i].steps IN
        IF steps = <<>>
        THEN chains[i].overall_confidence = 0
             /\ chains[i].logical_validity = 0
        ELSE chains[i].overall_confidence * 100 * Len(steps)
               = SumConfidence(steps) * Unit

C12_Witness ==
    /\ pc = "built" /\ genInput.kind = "response" /\ Len(chains) = 1
    /\ Len(chains[1].steps) = 2
    /\ chains[1].overall_confidence * 100 = DefaultConfidence * Unit

\* the step lists that differ from steps in one step's confidence, which is
\* not lower
Raised(steps) ==
    {[steps EXCEPT ![p[1]].confidence = p[2]] :
        p \in {q \in (1..Len(steps)) \X {50, 80, 90, 100} :
                  q[2] >= steps[q[1]].confidence}}

\* C13: the validity assessor returns 0 for the empty list and otherwise
\* min(1, 0.5 [a premise and a conclusion] + 0.3 [two steps or more]
\* + 0.2 mean confidence); the score is in [0,1], does not fall when a
\* confidence rises, and is the same for the three reasoning types.
C13_Validity ==
    Done("_assess_logical_validity") =>
        LET steps == call.steps
            n == Len(steps)
            v == result.value
            structure ==
                (IF (\E i \in 1..n : steps[i].type = "premise")
                      /\ (\E i \in 1..n : steps[i].type = "conclusion")
                 THEN 50 ELSE 0)
                + (IF n >= 2 THEN 30 ELSE 0)
            \* the score before min, in units of 1/(500 n)
            raw == structure * 5 * n + SumConfidence(steps)
        IN /\ n = 0 => v = 0
           /\ n > 0 => IF raw >= 500 * n THEN v = Unit
                       ELSE v * 500 * n = raw * Unit
           /\ v >= 0 /\ v <= Unit
           /\ \A rt \in ReasoningTypes : AssessLogicalValidity(steps, rt) = v
           /\ \A higher \in Raised(steps) :
                AssessLogicalValidity(higher, call.reasoning_type) >= v

C13_Witness ==
    /\ Done("_assess_logical_validity")
    /\ Len(call.steps) = 2 /\ call.reasoning_type = "abductive"
    /\ call.steps[1].type = "premise" /\ call.steps[2].type = "conclusion"
    /\ call.steps[1].confidence = 90 /\ call.steps[2].confidence = 90
    /\ result.value * 100 = 98 * Unit

\* the records of one type among gap records, in order
GapsOfType(gaps, ty) ==
    LET Is(g) == g.type = ty IN SelectSeq(gaps, Is)

\* C14: a missing_premise record (severity 0.8) is emitted exactly when no
\* step has type premise; one unsupported_assumption record (severity 0.7)
\* is emitted for each premise step with empty evidence_used, naming it, and
\* none for any other step.
C14_PremiseGaps ==
    Done("_identify_logical_gaps") =>
        LET steps == call.chain.steps
            missing == GapsOfType(result.value, "missing_premise")
            unsupported == GapsOfType(result.value, "unsupported_assumption")
            bare == {i \in 1..Len(steps) :
                       steps[i].type = "premise"
                       /\ steps[i].evidence_used = <<>>}
        IN /\ Len(missing) =
                (IF \E i \in 1..Len(steps) : steps[i].type = "premise"
                 THEN 0 ELSE 1)
           /\ \A j \in 1..Len(missing) : missing[j].severity = 80
           /\ Len(unsupported) = Cardinality(bare)
           /\ \A j \in 1..Len(unsupported) :
                /\ unsupported[j].severity = 70
                /\ \E i \in bare :
                     unsupported[j].ref = <<steps[i].step_number>>
                /\ \A k \in 1..(j - 1) :
                     unsupported[k].ref[1] < unsupported[j].ref[1]

C14_Witness ==
    /\ Done("_identify_logical_gaps")
    /\ Len(call.chain.steps) = 3
    /\ call.chain.steps[2].type = "premise"
    /\ call.chain.steps[2].evidence_used # <<>>
    /\ Len(GapsOfType(result.value, "unsupported_assumption")) = 2
    /\ GapsOfType(result.value, "missing_premise") = <<>>

\* the place of a gap record's type in the order of emission
GapRank(g) ==
    CASE g.type = "missing_premise" -> 1
      [] g.type = "weak_connection" -> 2
      [] OTHER -> 3

\* C15: one weak_connection record (severity 0.6) for each adjacent pair
\* whose later step's text holds no connective and none for the other
\* pairs; the records come in step order, after a missing_premise record
\* and before the unsupported_assumption records, at most N-1 of them.
C15_WeakConnections ==
    Done("_identify_logical_gaps") =>
        LET steps == call.chain.steps
            gaps == result.value
            weak == GapsOfType(gaps, "weak_connection")
            loose == {i \in 1..(Len(steps) - 1) :
                        steps[i + 1].text # "therefore Y"}
        IN /\ Len(weak) = Cardinality(loose)
           /\ Len(steps) > 0 => Len(weak) <= Len(steps) - 1
           /\ \A j \in 1..Len(weak) :
                /\ weak[j].severity = 60
                /\ \E i \in loose : weak[j].ref = <<i, i + 1>>
                /\ \A k \in 1..(j - 1) : weak[k].ref[1] < weak[j].ref[1]
           /\ \A a, b \in 1..Len(gaps) :
                a < b => GapRank(gaps[a]) <= GapRank(gaps[b])

C15_Witness ==
    /\ Done("_identify_logical_gaps")
    /\ Len(call.chain.steps) = 3
    /\ call.chain.steps[2].text = "therefore Y"
    /\ Len(result.value) = 2
    /\ result.value[1].type = "missing_premise"
    /\ result.value[2].type = "weak_connection"
    /\ result.value[2].ref = <<2, 3>>

RECURSIVE StrengthSum(_)
\* over the premise steps, the sum of min(1.0, confidence + 0.2 if the step
\* has evidence) in hundredths
StrengthSum(steps) ==
    IF steps = <<>> THEN 0
    ELSE (IF Head(steps).type # "premise" THEN 0
          ELSE IF Head(steps).evidence_used = <<>>
          THEN Head(steps).confidence
          ELSE IF Head(steps).confidence + 20 > 100 THEN 100
          ELSE Head(steps).confidence + 20)
         + StrengthSum(Tail(steps))

\* C16: without a premise step the assessment is {overall_strength: 0.0,
\* premise_count: 0} and has no individual_strengths key; otherwise
\* premise_count is the number of premise steps and overall_strength the
\* mean over them of min(1.0, confidence + 0.2 if evidence_used else
\* confidence).
C16_PremiseStrength ==
    Done("_assess_premise_strength") =>
        LET steps == call.chain.steps
            count == Cardinality({i \in 1..Len(steps) :
                                    steps[i].type = "premise"})
            r == result.value
        IN IF count = 0
           THEN /\ r.keys = {"overall_strength", "premise_count"}
                /\ r.overall_strength = 0 /\ r.premise_count = 0
           ELSE /\ r.premise_count = count
                /\ r.overall_strength * 100 * count
                     = StrengthSum(steps) * Unit

C16_Witness ==
    /\ Done("_assess_premise_strength")
    /\ Len(call.chain.steps) = 1
    /\ call.chain.steps[1].type = "premise"
    /\ call.chain.steps[1].confidence = 90
    /\ call.chain.steps[1].evidence_used # <<>>
    /\ result.value.overall_strength = Unit

\* min(1.0, confidence + 0.2 if the step has evidence) in hundredths
StrengthOf(step) ==
    IF step.evidence_used = <<>> THEN step.confidence
    ELSE IF step.confidence + 20 > 100 THEN 100
    ELSE step.confidence + 20

RECURSIVE SumStrength(_)
\* the sum of the strengths individual_strengths lists
SumStrength(listed) ==
    IF listed = <<>> THEN 0
    ELSE Head(listed).strength + SumStrength(Tail(listed))

\* C17: with at least one premise step, individual_strengths has one
\* {step, strength} entry per premise step in step order, each strength is
\* that premise's strength (confidence, plus 0.2 with evidence, clamped to
\* 1.0), and overall_strength is the mean of the listed strengths.
C17_IndividualStrengths ==
    (Done("_assess_premise_strength")
       /\ \E i \in 1..Len(call.chain.steps) :
            call.chain.steps[i].type = "premise") =>
        LET premises == LET Is(s) == s.type = "premise"
                        IN SelectSeq(call.chain.steps, Is)
            listed == result.value.individual_strengths
        IN /\ "individual_strengths" \in result.value.keys
           /\ Len(listed) = Len(premises)
           /\ \A j \in 1..Len(listed) :
                /\ listed[j].step = premises[j].step_number
                /\ listed[j].strength = StrengthOf(premises[j])
           /\ result.value.overall_strength * 100 * Len(listed)
                = SumStrength(listed) * Unit

\* C18: identify_requirements returns at most 5 entries, the first 5 of:
\* one entry per premise step with empty evidence_used in step order, then
\* one per step with confidence below 0.6 in step order, then the generic
\* entry of an inductive or abductive chain.
C18_Requirements ==
    Done("_identify_evidence_requirements") =>
        LET steps == call.chain.steps
            rt == call.chain.reasoning_type
            bare == LET Is(s) == s.type = "premise" /\ s.evidence_used = <<>>
                    IN SelectSeq(steps, Is)
            weak == LET Is(s) == s.confidence < 60 IN SelectSeq(steps, Is)
            a == Len(bare)
            b == Len(weak)
            g == IF rt = "deductive" THEN 0 ELSE 1
            r == result.value
        IN /\ Len(r) <= 5
           /\ Len(r) = (IF a + b + g < 5 THEN a + b + g ELSE 5)
           /\ \A j \in 1..Len(r) :
                IF j <= a
                THEN r[j] = "Evidence to support: " \o bare[j].text \o "..."
                ELSE IF j <= a + b
                THEN r[j] = "Additional support needed for: "
                            \o weak[j - a].text \o "..."
                ELSE r[j] = (IF rt = "inductive"
                             THEN "More examples or cases to strengthen generalization"
                             ELSE "Evidence ruling out alternative explanations")

C18_Witness ==
    /\ Done("_identify_evidence_requirements")
    /\ call.chain.reasoning_type = "inductive"
    /\ Len(call.chain.steps) = 3
    /\ \A i \in 1..3 : /\ call.chain.steps[i].type = "premise"
                       /\ call.chain.steps[i].evidence_used = <<>>
                       /\ call.chain.steps[i].confidence < 60
    /\ Len(result.value) = 5
    /\ result.value[5] = "Additional support needed for: X..."

\* C19: without an external backend the counterargument generator returns
\* the one placeholder that says the capability needs LLM access, whatever
\* the claim and the chain; it does not raise and calls no backend.
C19_Placeholder ==
    (Done("_generate_counterarguments")
       /\ ~openai_client /\ ~anthropic_client) =>
        /\ result.value = <<"Counterargument generation requires LLM access">>
        /\ ctrCalls = 0

C19_Witness ==
    /\ Done("_generate_counterarguments")
    /\ ~openai_client /\ ~anthropic_client /\ generator
    /\ call.out.raises
    /\ Len(result.value) = 1 /\ ctrCalls = 0

\* the entry the generator makes of a list line
CounterEntry(l) == IF l.kind = "dash" THEN l.text ELSE LineText(l)

\* C20: with a backend configured that returns a response, the generator
\* returns the bullet lines and the numbered lines of the response, in
\* order, cut to at most 3 entries.
C20_ListLines ==
    (Done("_generate_counterarguments")
       /\ (openai_client \/ anthropic_client) /\ ~call.out.raises) =>
        LET listed == LET Is(l) == l.kind \in {"dash", "dot", "numbered"}
                      IN SelectSeq(call.out.text, Is)
            r == result.value
        IN /\ Len(r) = (IF Len(listed) < 3 THEN Len(listed) ELSE 3)
           /\ \A j \in 1..Len(r) : r[j] = CounterEntry(listed[j])

\* C21: the detector covers the ten fallacy types: for each of them some
\* chain makes it return a record of that type; and every returned record
\* has confidence 0.7 and the description registered for its type.
C21_TenFallacyTypes ==
    Done("_detect_fallacies") =>
        /\ \A j \in 1..Len(result.value) :
             /\ result.value[j].confidence = 70
             /\ result.value[j].description
                  = FallacyDescription(result.value[j].type)
             /\ result.value[j].description # "Unknown fallacy"
        /\ \A fallacy \in LogicalFallacy :
             \E st \in FallacyStepLists :
               \E j \in 1..Len(DetectFallacies(ChainOf(st, "deductive"))) :
                 DetectFallacies(ChainOf(st, "deductive"))[j].type = fallacy

\* C22: the validate operation returns validation_score = logical_validity
\* - 0.1 * (number of gaps) - 0.15 * (number of fallacies) clamped to [0, 1],
\* and is_valid exactly when validation_score > 0.6, for the validity, gaps
\* and fallacies computed for the chain built from the submitted texts.
C22_ValidationScore ==
    Done("validate_reasoning_logic") =>
        LET v == result.value
            raw == v.logical_validity - Len(v.logical_gaps) * (Unit \div 10)
                     - Len(v.fallacies) * ((15 * Unit) \div 100)
            chain == ChainOf(v.step_analysis, call.request.reasoning_type)
        IN /\ v.validation_score
                = (IF raw < 0 THEN 0 ELSE IF raw > Unit THEN Unit ELSE raw)
           /\ v.is_valid <=> (v.validation_score * 10 > 6 * Unit)
           /\ Len(v.step_analysis) = Len(call.request.reasoning_steps)
           /\ \A i \in 1..Len(v.step_analysis) :
                v.step_analysis[i].text = call.request.reasoning_steps[i]
           /\ v.logical_validity = chain.logical_validity
           /\ v.logical_gaps
                = IdentifyLogicalGaps(chain, call.request.evidence)
           /\ v.fallacies = DetectFallacies(chain)

\* a validation whose raw score is below 0: two or more issues of each kind
C22_Witness ==
    /\ Done("validate_reasoning_logic")
    /\ Len(result.value.logical_gaps) >= 2
    /\ Len(result.value.fallacies) >= 2
    /\ result.value.validation_score = 0
    /\ ~result.value.is_valid

\* C28: the validate operation never reports is_valid: every step is an
\* inference of confidence 0.8, so logical_validity is at most 0.46, a
\* missing_premise gap is always present and validation_score is at most
\* 0.36, for every list of step texts, the empty one included.
C28_NeverValid ==
    Done("validate_reasoning_logic") =>
        /\ ~result.value.is_valid
        /\ \A i \in 1..Len(result.value.step_analysis) :
             /\ result.value.step_analysis[i].type = "inference"
             /\ result.value.step_analysis[i].confidence = 80
        /\ result.value.logical_validity * 100 <= 46 * Unit
        /\ Len(GapsOfType(result.value.logical_gaps, "missing_premise")) = 1
        /\ result.value.validation_score * 100 <= 36 * Unit

\* a validation that reaches the largest score there is
C28_Witness ==
    /\ Done("validate_reasoning_logic")
    /\ Len(call.request.reasoning_steps) >= 2
    /\ result.value.logical_validity * 100 = 46 * Unit
    /\ result.value.validation_score * 100 = 36 * Unit
    /\ ~result.value.is_valid

\* the chains generation returns for the i-th claim of the request called
ChainsOfClaim(i) ==
    GenerateReasoningChain(<<>>, call.request.reasoning_type,
                           call.request.max_depth + 2, TRUE,
                           call.request.claims[i])

\* the claims generation returned a chain for, in the order of the request
ClaimsWithChain ==
    LET Has(i) == ChainsOfClaim(i) # <<>>
    IN SelectSeq([i \in 1..Len(call.request.claims) |-> i], Has)

Entries(list) == {list[i] : i \in 1..Len(list)}

PromptOrder == <<"hdrA", "hdrW", "hdrE", "hdrC">>

HeaderTexts == {LineText(Line(h, 0, "", "")) : h \in SectionHeaders}

\* C25: each section's list holds exactly the non-empty lines, bullet marker
\* stripped, between the section's header and the next header line or the
\* end of the text: for a response with the four sections in the prompt's
\* order, each list is the entries listed under its own header, and no header
\* line of a later section is in the list of an earlier one.
C25_SectionBounds ==
    Done("_parse_structured_reasoning") =>
        \A es \in EntryLists :
            call.reasoning_text = FormattedResponse(PromptOrder, es) =>
                LET chain == result.value[1]
                    own == [i \in 1..Len(es) |-> StripDash(es[i])]
                IN /\ chain.assumptions = own
                   /\ chain.weaknesses = own
                   /\ chain.evidence_requirements = own
                   /\ chain.counterarguments = own
                   /\ \A i \in 1..Len(chain.assumptions) :
                        chain.assumptions[i] \notin HeaderTexts

C26_NoExternalCall ==
    (pc \notin {"idle", "rejected"} /\ ~req.use_llm) =>
        (extAttempts = 0 /\ ctrCalls = 0)

\* C27: every chain generate_reasoning_chain returns has at most max_steps
\* steps, on the external path as well as on the fallback path.
C27_StepBudget ==
    pc \in {"built", "analyzing", "analyzed", "returned"} =>
        \A i \in 1..Len(chains) : Len(chains[i].steps) <= req.max_steps

\* C30: the constructor only schedules the two initialization tasks; a
\* request that runs before them sees no client and no generator, takes the
\* fallback path and returns, without raising, one chain with zero steps,
\* overall_confidence 0 and logical_validity 0; a request issued after the
\* tasks have completed takes the path the loaded handles select.
C30_BeforeInitialization ==
    /\ (loadTask = "scheduled" /\ initTask = "scheduled") =>
         /\ ~generator /\ ~openai_client /\ ~anthropic_client
         /\ pc # "failed"
         /\ extAttempts = 0 /\ ctrCalls = 0
         /\ selected \in {NoneType, "fallback"}
         /\ pc \in {"gen_fallback", "built", "analyzing", "analyzed",
                    "returned"} => selected = "fallback"
         /\ pc \in {"built", "analyzing", "analyzed", "returned"} =>
              /\ Len(chains) = 1
              /\ chains[1].steps = <<>>
              /\ chains[1].overall_confidence = 0
              /\ chains[1].logical_validity = 0
              /\ genInput.kind = "nomodel"
    /\ (loadTask = "done" /\ initTask = "done" /\ selected # NoneType) =>
         selected = SelectedPath(req.use_llm, openai_client,
                                 anthropic_client)

\* a request that asked for an external backend is answered before either
\* task has run
C30_Witness ==
    /\ pc = "returned" /\ loadTask = "scheduled" /\ initTask = "scheduled"
    /\ req.use_llm /\ req.complexity_ok /\ req.max_steps > 0
    /\ selected = "fallback"
    /\ Len(chains) = 1 /\ chains[1].steps = <<>>

====
